---- MODULE Spec2Model ----
(***************************************************************************)
(* Model of reddack/models.py: the moderation-queue <-> Slack review       *)
(* synchronisation (ReddackSubmission and Reddack.sync).                    *)
(*                                                                         *)
(* Python dicts keep insertion order, and the code iterates over them, so  *)
(* a dict is modelled as a sequence of [key, val] records with unique keys. *)
(* Python strings that are compared (timestamps) are sequences of digits,   *)
(* compared lexicographically as Python compares str.                       *)
(***************************************************************************)
EXTENDS Integers, Sequences, FiniteSets

VARIABLES
    self_responses,   \* ReddackItem.responses of the item a property/method is called on
    thresholds,       \* Reddack.thresholds[ReddackSubmission]
    ret,              \* the value returned by the last method call, and how often it was called
    modqueue,         \* ids of the items in the subreddit's modqueue (Reddit's state)
    known_items_file, \* the dict stored in the file at known_items_path
    knownitems,       \* sync's local `knownitems`
    newitems,         \* sync's local `newitems`
    pc,               \* where sync() is: the method it is in, or how it ended
    iter,             \* the keys the running for loop has still to visit
    incomplete,       \* check_slack_queue's local `incomplete`
    post_requests,    \* the moderators' requests stored under post_requests_path
    clock,            \* Slack's clock: the messages and the requests it has stamped
    calls,            \* the collaborator calls made for the item the loop handled last
    cycle,            \* what the running sync() has done so far (observation)
    posts,            \* per submission, the review messages posted so far (observation)
    terminal          \* per submission, the approve/remove calls that succeeded (observation)

storeVars == <<modqueue, known_items_file, knownitems, newitems>>
syncVars == <<pc, iter, incomplete, post_requests, clock, calls, cycle, posts, terminal>>
vars == <<self_responses, thresholds, ret, modqueue, known_items_file, knownitems, newitems,
          pc, iter, incomplete, post_requests, clock, calls, cycle, posts, terminal>>

\* ---------------------------------------------------------------- bounds
MaxResponses == 2          \* moderators that responded to one item
MaxThreshold == 2          \* thresholds range over -MaxThreshold..MaxThreshold
MaxSubmissions == 2        \* submissions that ever enter the modqueue
MaxResponders == 1         \* moderators that answer while sync() is run again and again
MaxPosts == 2              \* review messages Slack accepts in all
MaxRequests == 1           \* requests the moderators make in all
MaxMessages == 3           \* messages conversations_replies returns for one thread
MaxReasons == 2            \* removal reasons one moderator selects
MaxMerged == 2             \* requests stored when the finalize phase is run on a store

\* ---------------------------------------------------------------- dicts
Range(s) == {s[i] : i \in DOMAIN s}
Keys(d) == {d[i].key : i \in DOMAIN d}
\* dict.values(): the values in insertion order
Values(d) == [i \in DOMAIN d |-> d[i].val]
Get(d, k) == (CHOOSE i \in DOMAIN d : d[i].key = k)
\* d[k] = v: a new key is appended, an old key keeps its place
DictSet(d, k, v) ==
    IF k \in Keys(d)
    THEN [i \in DOMAIN d |-> IF d[i].key = k THEN [key |-> k, val |-> v] ELSE d[i]]
    ELSE Append(d, [key |-> k, val |-> v])
\* every sequence over S without repetition, of length at most n
RECURSIVE InjSeqs(_, _)
InjSeqs(S, n) ==
    IF n = 0 THEN {<<>>}
    ELSE LET shorter == InjSeqs(S, n - 1)
         IN shorter \cup {Append(p[1], p[2]) :
                             p \in {q \in shorter \X S : q[2] \notin Range(q[1])}}

\* ---------------------------------------------------------------- strings
\* Python's str > str: lexicographic, a proper prefix is smaller
RECURSIVE StrGT(_, _)
StrGT(a, b) ==
    IF a = <<>> THEN FALSE
    ELSE IF b = <<>> THEN TRUE
    ELSE IF Head(a) # Head(b) THEN Head(a) > Head(b)
    ELSE StrGT(Tail(a), Tail(b))

\* Python's float(str) on the values of the approve/remove radio buttons
VoteStrings == {"-1", "0", "1"}
Float(s) == CASE s = "-1" -> -1
              [] s = "0"  -> 0
              [] s = "1"  -> 1

Moderators == 1..MaxResponses

\* one field of a response: {value, timestamp}
Field(v, t) == [value |-> v, timestamp |-> t]
\* a ReddackResponse: .actions and .states, keyed by the Slack action ids
Response(confirm, vote, reasons, note, ts) ==
    [actions |-> [actionConfirm |-> Field(confirm, ts)],
     states  |-> [actionApproveRemove |-> Field(vote, ts),
                  actionRemovalReason |-> Field(reasons, ts),
                  actionModnote       |-> Field(note, ts)]]

\* ---------------------------------------------------------------- praw items
\* what modqueue() yields: praw Submission objects and others (comments)
Submissions == 1..MaxSubmissions
Comments == {0}
PrawItems == Submissions \cup Comments
isinstance_Submission(item) == item \in Submissions

\* message_ts = None
NoneTs == <<>>
\* Slack's timestamps, as digit strings: of the k-th review message posted
\* for submission i, and of the j-th request. The code compares a request's
\* timestamp only with those of earlier requests and of the message the
\* request is made on, which are all smaller.
MessageTs(i, k) == <<0, i, k>>
RequestTs(j) == <<1, j>>

\* ---------------------------------------------------------------- ReddackSubmission
\* __init__: the item's id, no message yet, no responses (the fields that
\* only feed the message formatting are left out)
ReddackSubmission(prawitem) ==
    [prawitem |-> prawitem, kind |-> "submission", message_ts |-> NoneTs,
     responses |-> <<>>]

RECURSIVE votesum_unconfirmed(_)
votesum_unconfirmed(values) ==
    IF values = <<>> THEN 0
    ELSE votesum_unconfirmed(SubSeq(values, 1, Len(values) - 1))
         + Float(values[Len(values)].states.actionApproveRemove.value)

\* approve_or_remove: the loop over self.responses.values(), then the tests
RECURSIVE votesum(_)
votesum(values) ==
    IF values = <<>> THEN 0
    ELSE LET response == values[Len(values)]
             rest == votesum(SubSeq(values, 1, Len(values) - 1))
         IN IF response.actions.actionConfirm.value
            THEN rest + Float(response.states.actionApproveRemove.value)
            ELSE rest

approve_or_remove_strict(responses, thr) ==
    LET s == votesum(Values(responses))
    IN IF s > thr.approve THEN "approve"
       ELSE IF s < thr.remove THEN "remove"
       ELSE "None"

approve_or_remove_remove_first(responses, thr) ==
    LET s == votesum(Values(responses))
    IN IF s <= thr.remove THEN "remove"
       ELSE IF s >= thr.approve THEN "approve"
       ELSE "None"

approve_or_remove(responses, thr) ==
    LET s == votesum(Values(responses))
    IN IF s >= thr.approve THEN "approve"
       ELSE IF s <= thr.remove THEN "remove"
       ELSE "None"

\* modnote: one iteration of the loop; the code assigns modnote only, the
\* local `timestamp` keeps its initial value "0" through the whole loop
modnote_step(acc, response) ==
    IF StrGT(response.states.actionModnote.timestamp, acc.timestamp)
    THEN [modnote |-> response.states.actionModnote.value, timestamp |-> acc.timestamp]
    ELSE acc

RECURSIVE modnote_loop(_)
modnote_loop(values) ==
    IF values = <<>> THEN [modnote |-> "", timestamp |-> <<0>>]
    ELSE modnote_step(modnote_loop(SubSeq(values, 1, Len(values) - 1)),
                      values[Len(values)])

modnote(responses) == modnote_loop(Values(responses)).modnote

\* Python's sorted() on a list of str: a stable insertion by str order
sorted_insert(l, x) ==
    LET k == Cardinality({i \in DOMAIN l : ~StrGT(l[i], x)})
    IN SubSeq(l, 1, k) \o <<x>> \o SubSeq(l, k + 1, Len(l))
RECURSIVE sorted(_)
sorted(l) ==
    IF l = <<>> THEN <<>>
    ELSE sorted_insert(sorted(SubSeq(l, 1, Len(l) - 1)), l[Len(l)])

\* removal_reasons, the inner loop: the reasons of one response, appended
\* without the test `reason not in unique_reasons`
RECURSIVE removal_reasons_extend(_, _)
removal_reasons_extend(unique_reasons, value) ==
    IF value = <<>> THEN unique_reasons
    ELSE removal_reasons_extend(Append(unique_reasons, Head(value)), Tail(value))

\* removal_reasons, the inner loop: a reason of the response is appended
\* when it is not in unique_reasons yet
RECURSIVE removal_reasons_inner(_, _)
removal_reasons_inner(unique_reasons, value) ==
    IF value = <<>> THEN unique_reasons
    ELSE removal_reasons_inner(
             IF Head(value) \in Range(unique_reasons) THEN unique_reasons
             ELSE Append(unique_reasons, Head(value)),
             Tail(value))

\* removal_reasons, the outer loop over self.responses.values()
RECURSIVE removal_reasons_loop(_)
removal_reasons_loop(values) ==
    IF values = <<>> THEN <<>>
    ELSE removal_reasons_inner(removal_reasons_loop(SubSeq(values, 1, Len(values) - 1)),
                               values[Len(values)].states.actionRemovalReason.value)

removal_reasons(responses) == sorted(removal_reasons_loop(Values(responses)))

\* ---------------------------------------------------------------- Reddack
\* the thresholds __init__ gives submissions by default
DefaultThresholds == [approve |-> 1, remove |-> -1]

check_reddit_queue_break(listing, known) ==
    LET RECURSIVE loop(_)
        loop(l) ==
            IF l = <<>> THEN [newitems |-> <<>>, stopped |-> FALSE]
            ELSE LET sofar == loop(SubSeq(l, 1, Len(l) - 1))
                     item == l[Len(l)]
                 IN IF sofar.stopped \/ ~isinstance_Submission(item)
                    THEN [sofar EXCEPT !.stopped = TRUE]
                    ELSE IF item \in Keys(known) THEN sofar
                    ELSE [sofar EXCEPT !.newitems = DictSet(@, item, ReddackSubmission(item))]
    IN loop(listing).newitems

\* check_reddit_queue: the loop over the listing modqueue(limit=None) yields
check_reddit_queue(listing, known) ==
    LET RECURSIVE loop(_)
        loop(l) ==
            IF l = <<>> THEN <<>>
            ELSE LET sofar == loop(SubSeq(l, 1, Len(l) - 1))
                     item == l[Len(l)]
                 IN IF ~isinstance_Submission(item) THEN sofar
                    ELSE IF item \in Keys(known) THEN sofar
                    ELSE DictSet(sofar, item, ReddackSubmission(item))
    IN loop(listing)

\* the orders in which the modqueue listing can yield the items of `queue`
Listings(queue) == {l \in InjSeqs(queue, Cardinality(queue)) : Len(l) = Cardinality(queue)}

\* ---------------------------------------------------------------- consensus harness
NoRet == [fn |-> "none", val |-> "None", n |-> 0]
\* nothing done yet in this sync(): no call failed, no save, no message
\* posted, no item acted on, no consensus evaluated; file0 is the store file
\* as sync() found it
NewCycle(file) ==
    [failed |-> "none", at |-> 0, saves |-> 0, posted |-> {}, acted |-> {},
     decided |-> {}, file0 |-> file]
\* the observation counters tell 0, 1 and more
Bump(n) == IF n < 2 THEN n + 1 ELSE n
\* sync() has not run yet
SyncIdle ==
    /\ pc = "idle"
    /\ iter = <<>>
    /\ incomplete = <<>>
    /\ post_requests = {}
    /\ clock = [messages |-> 0, requests |-> 0]
    /\ calls = <<>>
    /\ cycle = NewCycle(<<>>)
    /\ posts = [i \in Submissions |-> 0]
    /\ terminal = [i \in Submissions |-> 0]
\* the state of the synchronisation before the first sync()
StoreIdle ==
    /\ modqueue = {}
    /\ known_items_file = <<>>
    /\ knownitems = <<>>
    /\ newitems = <<>>
    /\ SyncIdle

ConsensusResponses ==
    {Response(c, v, <<>>, "", <<0>>) : c \in BOOLEAN, v \in VoteStrings}

InitConsensus ==
    /\ \E ks \in InjSeqs(Moderators, MaxResponses) :
         \E rs \in [DOMAIN ks -> ConsensusResponses] :
            self_responses = [i \in DOMAIN ks |-> [key |-> ks[i], val |-> rs[i]]]
    /\ thresholds \in [approve : -MaxThreshold..MaxThreshold,
                       remove  : -MaxThreshold..MaxThreshold]
    /\ ret = NoRet
    /\ StoreIdle

CallApproveOrRemove ==
    /\ ret = NoRet
    /\ ret' = [fn |-> "approve_or_remove",
               val |-> approve_or_remove(self_responses, thresholds), n |-> 1]
    /\ UNCHANGED <<self_responses, thresholds, storeVars, syncVars>>

NextConsensus == CallApproveOrRemove

SpecConsensus == InitConsensus /\ [][NextConsensus]_vars

\* ---------------------------------------------------------------- modnote harness
NoteStrings == {"a", "b"}
NoteTimestamps == {<<0>>, <<1>>, <<2>>, <<1, 0>>}
ModnoteResponses ==
    {Response(FALSE, "0", <<>>, n, t) : n \in NoteStrings, t \in NoteTimestamps}

InitModnote ==
    /\ \E ks \in InjSeqs(Moderators, MaxResponses) :
         \E rs \in [DOMAIN ks -> ModnoteResponses] :
            self_responses = [i \in DOMAIN ks |-> [key |-> ks[i], val |-> rs[i]]]
    /\ thresholds = [approve |-> 1, remove |-> -1]
    /\ ret = NoRet
    /\ StoreIdle

CallModnote ==
    /\ ret = NoRet
    /\ ret' = [fn |-> "modnote", val |-> modnote(self_responses), n |-> 1]
    /\ UNCHANGED <<self_responses, thresholds, storeVars, syncVars>>

NextModnote == CallModnote

SpecModnote == InitModnote /\ [][NextModnote]_vars

\* ---------------------------------------------------------------- removal reasons harness
\* the keys of the rules, as the digit strings "1", "2" and "10"
ReasonIds == {<<1>>, <<2>>, <<1, 0>>}
\* what the multi-select of one moderator holds: reasons in the order selected
ReasonLists == InjSeqs(ReasonIds, MaxReasons)
ReasonsResponses == {Response(FALSE, "0", l, "", <<0>>) : l \in ReasonLists}

InitReasons ==
    /\ \E ks \in InjSeqs(Moderators, MaxResponses) :
         \E rs \in [DOMAIN ks -> ReasonsResponses] :
            self_responses = [i \in DOMAIN ks |-> [key |-> ks[i], val |-> rs[i]]]
    /\ thresholds = DefaultThresholds
    /\ ret = [NoRet EXCEPT !.val = <<>>]
    /\ StoreIdle

CallRemovalReasons ==
    /\ ret.fn = "none"
    /\ ret' = [fn |-> "removal_reasons", val |-> removal_reasons(self_responses), n |-> 1]
    /\ UNCHANGED <<self_responses, thresholds, storeVars, syncVars>>

NextReasons == CallRemovalReasons

SpecReasons == InitReasons /\ [][NextReasons]_vars

\* ---------------------------------------------------------------- discover harness
\* an item of the store: published, so it has its message's timestamp
StoredItem(id) == [ReddackSubmission(id) EXCEPT !.message_ts = MessageTs(id, 1)]
StoreDicts ==
    {[i \in DOMAIN ks |-> [key |-> ks[i], val |-> StoredItem(ks[i])]] :
        ks \in InjSeqs(Submissions, MaxSubmissions)}

InitDiscover ==
    /\ self_responses = <<>>
    /\ thresholds = DefaultThresholds
    /\ ret = [NoRet EXCEPT !.val = {}]
    /\ modqueue \in SUBSET PrawItems
    /\ knownitems \in StoreDicts
    /\ known_items_file = knownitems
    /\ newitems = <<>>
    /\ SyncIdle

CallCheckRedditQueue_mutating ==
    /\ ret.n < 2
    /\ \E listing \in Listings(modqueue) :
         /\ newitems' = check_reddit_queue(listing, knownitems)
         /\ knownitems' = knownitems \o newitems'
         /\ ret' = [fn |-> "check_reddit_queue", val |-> Range(newitems'), n |-> ret.n + 1]
    /\ UNCHANGED <<self_responses, thresholds, modqueue, known_items_file, syncVars>>

\* newitems = self.check_reddit_queue(knownitems), as sync calls it
CallCheckRedditQueue ==
    /\ ret.n < 2
    /\ \E listing \in Listings(modqueue) :
         /\ newitems' = check_reddit_queue(listing, knownitems)
         /\ ret' = [fn |-> "check_reddit_queue", val |-> Range(newitems'), n |-> ret.n + 1]
    /\ UNCHANGED <<self_responses, thresholds, modqueue, known_items_file, knownitems, syncVars>>

NextDiscover == CallCheckRedditQueue

SpecDiscover == InitDiscover /\ [][NextDiscover]_vars

\* ---------------------------------------------------------------- responses
\* initialize_response: self._ResponseType(self.message_ts)
NewResponse(message_ts) == Response(FALSE, "0", <<>>, "", message_ts)

\* ReddackResponse.update: a field takes the request's value when the
\* request's timestamp is strictly newer than the field's
update(response, request, timestamp) ==
    LET merge(field, v) == IF StrGT(timestamp, field.timestamp)
                           THEN Field(v, timestamp) ELSE field
    IN [actions |-> [actionConfirm |->
                        merge(response.actions.actionConfirm, request.actionConfirm)],
        states  |-> [actionApproveRemove |->
                        merge(response.states.actionApproveRemove, request.actionApproveRemove),
                     actionRemovalReason |->
                        merge(response.states.actionRemovalReason, request.actionRemovalReason),
                     actionModnote |->
                        merge(response.states.actionModnote, request.actionModnote)]]

\* find_post_requests: the stored requests made on the item's message, oldest first
RECURSIVE SortByTimestamp(_)
SortByTimestamp(reqs) ==
    IF reqs = {} THEN <<>>
    ELSE LET last == CHOOSE r \in reqs :
                        \A q \in reqs \ {r} : StrGT(r.timestamp, q.timestamp)
         IN Append(SortByTimestamp(reqs \ {last}), last)
find_post_requests(moditem, post_dir) ==
    SortByTimestamp({r \in post_dir : r.ts = moditem.message_ts})

\* process_slack_responses: one iteration of the loop over
\* zip(requests, timestamps)
process_slack_responses_step(self, request) ==
    LET moderator == request.user
        initialized ==
            IF moderator \in Keys(self.responses) THEN self.responses
            ELSE DictSet(self.responses, moderator, NewResponse(self.message_ts))
    IN [self EXCEPT !.responses =
           DictSet(initialized, moderator,
                   update(initialized[Get(initialized, moderator)].val,
                          request, request.timestamp))]
RECURSIVE process_slack_responses_loop(_, _)
process_slack_responses_loop(moditem, requests) ==
    IF requests = <<>> THEN moditem
    ELSE process_slack_responses_step(
             process_slack_responses_loop(moditem, SubSeq(requests, 1, Len(requests) - 1)),
             requests[Len(requests)])
process_slack_responses_first(moditem, post_dir) ==
    LET requests == find_post_requests(moditem, post_dir)
    IN IF requests = <<>> THEN moditem
       ELSE process_slack_responses_loop(moditem, <<requests[1]>>)

process_slack_responses(moditem, post_dir) ==
    process_slack_responses_loop(moditem, find_post_requests(moditem, post_dir))

\* ---------------------------------------------------------------- collaborator calls
Call(api, channel, arg) == [api |-> api, channel |-> channel, arg |-> arg, ok |-> TRUE]
\* the calls of `plan` that are made when its f-th call raises (f = 0: none raises)
Ran(plan, f) ==
    IF f = 0 THEN plan
    ELSE [k \in 1..f |-> IF k = f THEN [plan[k] EXCEPT !.ok = FALSE] ELSE plan[k]]

\* msg_payload: the blocks of the review message, the call noted with
\* whether the thumbnail is in them (1) or not (0)
msg_payload(self, thumbnail) == Call("chat_postMessage", "queue", IF thumbnail THEN 1 ELSE 0)

send_msg_same_payload(self, payload_ok, first_ok, second_ok, ts) ==
    LET first == msg_payload(self, TRUE)
        second == msg_payload(self, TRUE)
    IN IF ~payload_ok
       THEN [self |-> self, raises |-> "MsgSendError", calls |-> <<>>]
       ELSE IF first_ok
       THEN [self |-> [self EXCEPT !.message_ts = ts], raises |-> "no",
             calls |-> <<first>>]
       ELSE IF second_ok
       THEN [self |-> [self EXCEPT !.message_ts = ts], raises |-> "no",
             calls |-> <<[first EXCEPT !.ok = FALSE], second>>]
       ELSE [self |-> self, raises |-> "MsgSendError",
             calls |-> <<[first EXCEPT !.ok = FALSE], [second EXCEPT !.ok = FALSE]>>]

send_msg_no_handle(self, payload_ok, first_ok, second_ok, ts) ==
    LET first == msg_payload(self, TRUE)
        second == msg_payload(self, FALSE)
    IN IF ~payload_ok
       THEN [self |-> self, raises |-> "MsgSendError", calls |-> <<>>]
       ELSE IF first_ok
       THEN [self |-> [self EXCEPT !.message_ts = ts], raises |-> "no",
             calls |-> <<first>>]
       ELSE [self |-> self, raises |-> "no",
             calls |-> <<[first EXCEPT !.ok = FALSE], second>>]

\* send_msg: msg_payload may raise MsgSendError (a missing field) before
\* anything is posted; otherwise post the message; on SlackApiError post it
\* again without the thumbnail; on a second SlackApiError raise MsgSendError
send_msg(self, payload_ok, first_ok, second_ok, ts) ==
    LET first == msg_payload(self, TRUE)
        second == msg_payload(self, FALSE)
    IN IF ~payload_ok
       THEN [self |-> self, raises |-> "MsgSendError", calls |-> <<>>]
       ELSE IF first_ok
       THEN [self |-> [self EXCEPT !.message_ts = ts], raises |-> "no",
             calls |-> <<first>>]
       ELSE IF second_ok
       THEN [self |-> [self EXCEPT !.message_ts = ts], raises |-> "no",
             calls |-> <<[first EXCEPT !.ok = FALSE], second>>]
       ELSE [self |-> self, raises |-> "MsgSendError",
             calls |-> <<[first EXCEPT !.ok = FALSE], [second EXCEPT !.ok = FALSE]>>]

\* _send_archive: users_info for every response, then the archive message
send_archive_calls(self) ==
    [i \in DOMAIN self.responses |-> Call("users_info", "", self.responses[i].key)]
    \o <<Call("chat_postMessage", "archive", 0)>>
\* _delete_msg: conversations_replies, then chat_delete for each of the n
\* messages it returned (noted with the call), last message first
delete_msg_calls(self, n) ==
    <<Call("conversations_replies", "queue", n)>>
    \o [k \in 1..n |-> Call("chat_delete", "queue", n + 1 - k)]
\* complete_cleanup
complete_cleanup_calls(self, n) == send_archive_calls(self) \o delete_msg_calls(self, n)
\* send_removal_message: the modmail conversation is created, then archived
send_removal_message_calls(self) ==
    <<Call("modmail_create", "", self.prawitem), Call("conversation_archive", "", self.prawitem)>>

check_slack_queue_calls_cleanup_first(decision, self, n) ==
    IF decision = "approve"
    THEN complete_cleanup_calls(self, n) \o <<Call("approve", "", self.prawitem)>>
    ELSE IF decision = "remove"
    THEN send_removal_message_calls(self) \o complete_cleanup_calls(self, n)
         \o <<Call("remove", "", self.prawitem)>>
    ELSE <<>>

\* the body of check_slack_queue's loop after process_slack_responses, for
\* the decision approve_or_remove returns
check_slack_queue_calls(decision, self, n) ==
    IF decision = "approve"
    THEN <<Call("approve", "", self.prawitem)>> \o complete_cleanup_calls(self, n)
    ELSE IF decision = "remove"
    THEN <<Call("remove", "", self.prawitem)>> \o send_removal_message_calls(self)
         \o complete_cleanup_calls(self, n)
    ELSE <<>>

\* cleanup_postrequest_json: keep the requests of the incomplete items
cleanup_postrequest_json(incompl, post_dir) ==
    {r \in post_dir : \E j \in DOMAIN incompl : incompl[j].val.message_ts = r.ts}

KeySeq(d) == [i \in DOMAIN d |-> d[i].key]

\* ---------------------------------------------------------------- environment
\* sync() is not running: its caller has not called it (again) yet
Ended == pc = "idle"

\* an item enters the modqueue once; approve and remove take it out.
\* Submissions are numbered in the order in which they enter.
Arrived(i) == i \in modqueue \/ (i \in Submissions /\ terminal[i] > 0)
Report ==
    /\ Ended
    /\ \E i \in PrawItems :
        /\ ~Arrived(i)
        /\ \A j \in Submissions : (i \in Submissions /\ j < i) => Arrived(j)
        /\ modqueue' = modqueue \cup {i}
        /\ UNCHANGED <<self_responses, thresholds, ret, known_items_file, knownitems,
                       newitems, syncVars>>

\* the moderators that act on the messages
Responders == 1..MaxResponders
\* what a moderator submits: whether the vote is confirmed, and the vote
Forms == BOOLEAN \X {"-1", "1"}
\* the messages of the stored items, on which moderators can act in Slack
Published == {it.message_ts : it \in Range(Values(known_items_file))} \ {NoneTs}
\* a moderator submits the form of a message: the request is stored.
\* Moderators are numbered in the order of their first request.
Respond ==
    /\ Ended
    /\ clock.requests < MaxRequests
    /\ \E ts \in Published, user \in Responders, form \in Forms :
        /\ user <= clock.requests + 1
        /\ clock' = [clock EXCEPT !.requests = @ + 1]
        /\ post_requests' = post_requests \cup
              {[ts |-> ts, user |-> user, actionConfirm |-> form[1],
                actionApproveRemove |-> form[2], actionRemovalReason |-> <<>>,
                actionModnote |-> "", timestamp |-> RequestTs(clock.requests + 1)]}
        /\ UNCHANGED <<self_responses, thresholds, ret, storeVars, pc, iter, incomplete,
                       calls, cycle, posts, terminal>>

\* ---------------------------------------------------------------- sync
Init ==
    /\ self_responses = <<>>
    /\ thresholds = DefaultThresholds
    /\ ret = NoRet
    /\ StoreIdle

\* sync, line 304: get_known_items returns the stored dict
GetKnownItems ==
    /\ Ended
    /\ pc' = "check_reddit_queue"
    /\ knownitems' = known_items_file
    /\ newitems' = <<>>
    /\ iter' = <<>>
    /\ incomplete' = <<>>
    /\ calls' = <<>>
    /\ cycle' = NewCycle(known_items_file)
    /\ UNCHANGED <<self_responses, thresholds, ret, modqueue, known_items_file,
                   post_requests, clock, posts, terminal>>

GetKnownItemsRaises_swallowed ==
    /\ Ended
    /\ pc' = "check_reddit_queue"
    /\ knownitems' = <<>>
    /\ newitems' = <<>>
    /\ iter' = <<>>
    /\ incomplete' = <<>>
    /\ calls' = <<>>
    /\ cycle' = [NewCycle(known_items_file) EXCEPT !.failed = "get_known_items"]
    /\ UNCHANGED <<self_responses, thresholds, ret, modqueue, known_items_file,
                   post_requests, clock, posts, terminal>>

\* sync, line 304: get_known_items raises, and so does sync
GetKnownItemsRaises ==
    /\ Ended
    /\ pc' = "raised"
    /\ knownitems' = <<>>
    /\ newitems' = <<>>
    /\ iter' = <<>>
    /\ incomplete' = <<>>
    /\ calls' = <<>>
    /\ cycle' = [NewCycle(known_items_file) EXCEPT !.failed = "get_known_items"]
    /\ UNCHANGED <<self_responses, thresholds, ret, modqueue, known_items_file,
                   post_requests, clock, posts, terminal>>

\* sync, line 305: check_reddit_queue returns the new items
CheckRedditQueue ==
    /\ pc = "check_reddit_queue"
    /\ \E listing \in Listings(modqueue) :
          newitems' = check_reddit_queue(listing, knownitems)
    /\ iter' = KeySeq(newitems')
    /\ pc' = "update_slack_queue"
    /\ UNCHANGED <<self_responses, thresholds, ret, modqueue, known_items_file, knownitems,
                   incomplete, post_requests, clock, calls, cycle, posts, terminal>>

\* sync, line 305: listing the modqueue raises, and so does sync
CheckRedditQueueRaises ==
    /\ pc = "check_reddit_queue"
    /\ pc' = "raised"
    /\ cycle' = [cycle EXCEPT !.failed = "modqueue"]
    /\ UNCHANGED <<self_responses, thresholds, ret, storeVars, iter, incomplete,
                   post_requests, clock, calls, posts, terminal>>

\* update_slack_queue, lines 330-337: one iteration of the loop. send_msg
\* either returns, and the item is added to knownitems, or raises
\* MsgSendError, which nothing catches: update_slack_queue and sync raise.
\* `calls` holds the posts send_msg made for the item.
UpdateSlackQueueStep ==
    /\ pc = "update_slack_queue"
    /\ iter # <<>>
    /\ \E id \in {Head(iter)}, payload_ok, first_ok, second_ok \in BOOLEAN :
       \E sent \in {send_msg(newitems[Get(newitems, id)].val, payload_ok, first_ok,
                              second_ok, MessageTs(id, posts[id] + 1))} :
          /\ calls' = sent.calls
          /\ newitems' = DictSet(newitems, id, sent.self)
          /\ IF sent.raises = "no"
             THEN /\ clock.messages < MaxPosts
                  /\ posts[id] < 2
                  /\ clock' = [clock EXCEPT !.messages = @ + 1]
                  /\ knownitems' = DictSet(knownitems, id, sent.self)
                  /\ iter' = Tail(iter)
                  /\ posts' = [posts EXCEPT ![id] = Bump(@)]
                  /\ cycle' = [cycle EXCEPT !.posted = @ \cup {id}]
                  /\ pc' = pc
             ELSE /\ pc' = "raised"
                  /\ cycle' = [cycle EXCEPT
                       !.failed = IF sent.calls = <<>> THEN "msg_payload" ELSE "send_msg",
                       !.at = id]
                  /\ UNCHANGED <<clock, knownitems, iter, posts>>
    /\ UNCHANGED <<self_responses, thresholds, ret, modqueue, known_items_file,
                   incomplete, post_requests, terminal>>

\* update_slack_queue returns knownitems; sync, line 307, writes it to the
\* file and, line 308, calls check_slack_queue
UpdateSlackQueueReturns ==
    /\ pc = "update_slack_queue"
    /\ iter = <<>>
    /\ known_items_file' = knownitems
    /\ cycle' = [cycle EXCEPT !.saves = Bump(@)]
    /\ pc' = "check_slack_queue"
    /\ iter' = KeySeq(knownitems)
    /\ incomplete' = <<>>
    /\ calls' = <<>>
    /\ UNCHANGED <<self_responses, thresholds, ret, modqueue, knownitems, newitems,
                   post_requests, clock, posts, terminal>>

CheckSlackQueueStep_drop_resolved ==
    /\ pc = "check_slack_queue"
    /\ iter # <<>>
    /\ \E id \in {Head(iter)} :
       \E moditem \in {process_slack_responses(knownitems[Get(knownitems, id)].val,
                                               post_requests)} :
       \E decision \in {approve_or_remove(moditem.responses, thresholds)} :
          /\ knownitems' = DictSet(knownitems, id, moditem)
          /\ known_items_file' = IF decision = "None" THEN known_items_file
                                 ELSE SelectSeq(known_items_file, LAMBDA e : e.key # id)
          /\ incomplete' = IF decision = "None"
                           THEN DictSet(incomplete, moditem.prawitem, moditem)
                           ELSE incomplete
          /\ \E n \in 1..MaxMessages :
             \E plan \in {check_slack_queue_calls(decision, moditem, n)} :
             \E f \in 0..Len(plan) :
             \E acted \in {plan # <<>> /\ (f = 0 \/ f > 1)} :
                /\ calls' = Ran(plan, f)
                /\ modqueue' = IF acted THEN modqueue \ {id} ELSE modqueue
                /\ terminal' = IF acted THEN [terminal EXCEPT ![id] = Bump(@)]
                               ELSE terminal
                /\ IF f = 0
                   THEN /\ iter' = Tail(iter)
                        /\ pc' = pc
                        /\ cycle' = [cycle EXCEPT
                             !.acted = IF acted THEN @ \cup {id} ELSE @,
                             !.decided = @ \cup {<<id, decision>>}]
                   ELSE /\ iter' = iter
                        /\ pc' = "raised"
                        /\ cycle' = [cycle EXCEPT
                             !.failed = plan[f].api, !.at = id,
                             !.acted = IF acted THEN @ \cup {id} ELSE @,
                             !.decided = @ \cup {<<id, decision>>}]
    /\ UNCHANGED <<self_responses, thresholds, ret, newitems, post_requests, clock, posts>>

\* check_slack_queue, lines 361-376: one iteration of the loop. The requests
\* are merged, the decision taken; a pending item goes to `incomplete`; for
\* the others the calls are made in order, and the first that raises ends
\* check_slack_queue and sync.
CheckSlackQueueStep ==
    /\ pc = "check_slack_queue"
    /\ iter # <<>>
    /\ \E id \in {Head(iter)} :
       \E moditem \in {process_slack_responses(knownitems[Get(knownitems, id)].val,
                                               post_requests)} :
       \E decision \in {approve_or_remove(moditem.responses, thresholds)} :
          /\ knownitems' = DictSet(knownitems, id, moditem)
          /\ incomplete' = IF decision = "None"
                           THEN DictSet(incomplete, moditem.prawitem, moditem)
                           ELSE incomplete
          /\ \E n \in 1..MaxMessages :
             \E plan \in {check_slack_queue_calls(decision, moditem, n)} :
             \E f \in 0..Len(plan) :
             \E acted \in {plan # <<>> /\ (f = 0 \/ f > 1)} :
                /\ calls' = Ran(plan, f)
                /\ modqueue' = IF acted THEN modqueue \ {id} ELSE modqueue
                /\ terminal' = IF acted THEN [terminal EXCEPT ![id] = Bump(@)]
                               ELSE terminal
                /\ IF f = 0
                   THEN /\ iter' = Tail(iter)
                        /\ pc' = pc
                        /\ cycle' = [cycle EXCEPT
                             !.acted = IF acted THEN @ \cup {id} ELSE @,
                             !.decided = @ \cup {<<id, decision>>}]
                   ELSE /\ iter' = iter
                        /\ pc' = "raised"
                        /\ cycle' = [cycle EXCEPT
                             !.failed = plan[f].api, !.at = id,
                             !.acted = IF acted THEN @ \cup {id} ELSE @,
                             !.decided = @ \cup {<<id, decision>>}]
    /\ UNCHANGED <<self_responses, thresholds, ret, known_items_file, newitems,
                   post_requests, clock, posts>>

\* check_slack_queue, lines 377-380, returns `incomplete`: the two cleanups
\* rewrite the store file and the request directory from it; sync, line 309,
\* writes it to the file
CheckSlackQueueReturns_all ==
    /\ pc = "check_slack_queue"
    /\ iter = <<>>
    /\ post_requests' = cleanup_postrequest_json(incomplete, post_requests)
    /\ known_items_file' = knownitems
    /\ cycle' = [cycle EXCEPT !.saves = Bump(@)]
    /\ pc' = "returned"
    /\ UNCHANGED <<self_responses, thresholds, ret, modqueue, knownitems, newitems, iter,
                   incomplete, clock, calls, posts, terminal>>

CheckSlackQueueReturns ==
    /\ pc = "check_slack_queue"
    /\ iter = <<>>
    /\ post_requests' = cleanup_postrequest_json(incomplete, post_requests)
    /\ knownitems' = incomplete
    /\ known_items_file' = incomplete
    /\ cycle' = [cycle EXCEPT !.saves = Bump(@)]
    /\ pc' = "returned"
    /\ UNCHANGED <<self_responses, thresholds, ret, modqueue, newitems, iter, incomplete,
                   clock, calls, posts, terminal>>

\* sync has returned or raised: its locals are gone, and its caller may call
\* it again
SyncEnds ==
    /\ pc \in {"returned", "raised"}
    /\ pc' = "idle"
    /\ knownitems' = <<>>
    /\ newitems' = <<>>
    /\ iter' = <<>>
    /\ incomplete' = <<>>
    /\ calls' = <<>>
    /\ cycle' = NewCycle(<<>>)
    /\ UNCHANGED <<self_responses, thresholds, ret, modqueue, known_items_file,
                   post_requests, clock, posts, terminal>>

Next ==
    \/ Report
    \/ Respond
    \/ GetKnownItems
    \/ GetKnownItemsRaises
    \/ CheckRedditQueue
    \/ CheckRedditQueueRaises
    \/ UpdateSlackQueueStep
    \/ UpdateSlackQueueReturns
    \/ CheckSlackQueueStep
    \/ CheckSlackQueueReturns
    \/ SyncEnds

Spec == Init /\ [][Next]_vars

\* ---------------------------------------------------------------- finalize harness
\* sync() run on a store of published items, with the moderators' requests
\* already stored: nothing new is in the modqueue, so update_slack_queue has
\* nothing to send and check_slack_queue does the work.
\* The requests, oldest first, as <<item, moderator, form>>, all made on the
\* message of one of the k items; moderators are numbered in the order of
\* their first request.
StoredRequests(k) ==
    UNION {{q \in [1..m -> {t} \X Moderators \X Forms] :
               \A j \in 1..m : \A v \in 1..(q[j][2] - 1) : \E i \in 1..(j - 1) : q[i][2] = v} :
           m \in 0..MaxMerged, t \in 1..k}
\* the thresholds the Reddack is constructed with: the default ones, or
\* ones that the sum 0 meets both
FinalizeThresholds == {DefaultThresholds, [approve |-> 0, remove |-> 0]}

InitFinalize ==
    /\ self_responses = <<>>
    /\ thresholds \in FinalizeThresholds
    /\ ret = NoRet
    /\ \E k \in Submissions : \E q \in StoredRequests(k) :
         /\ modqueue = 1..k
         /\ known_items_file = [i \in 1..k |-> [key |-> i, val |-> StoredItem(i)]]
         /\ posts = [i \in Submissions |-> IF i <= k THEN 1 ELSE 0]
         /\ clock = [messages |-> k, requests |-> Len(q)]
         /\ post_requests =
               {[ts |-> MessageTs(q[j][1], 1), user |-> q[j][2],
                 actionConfirm |-> q[j][3][1], actionApproveRemove |-> q[j][3][2],
                 actionRemovalReason |-> <<>>, actionModnote |-> "",
                 timestamp |-> RequestTs(j)] : j \in DOMAIN q}
    /\ knownitems = <<>>
    /\ newitems = <<>>
    /\ pc = "idle"
    /\ iter = <<>>
    /\ incomplete = <<>>
    /\ calls = <<>>
    /\ cycle = NewCycle(<<>>)
    /\ terminal = [i \in Submissions |-> 0]

NextFinalize ==
    \/ GetKnownItems
    \/ CheckRedditQueue
    \/ UpdateSlackQueueReturns
    \/ CheckSlackQueueStep
    \/ CheckSlackQueueReturns
    \/ SyncEnds

SpecFinalize == InitFinalize /\ [][NextFinalize]_vars

\* ---------------------------------------------------------------- claims
RECURSIVE SumOver(_, _)
SumOver(S, f) ==
    IF S = {} THEN 0
    ELSE LET x == CHOOSE y \in S : TRUE IN f[x] + SumOver(S \ {x}, f)

Confirmed == {i \in DOMAIN self_responses :
                 self_responses[i].val.actions.actionConfirm.value = TRUE}
ConfirmedSum ==
    SumOver(Confirmed,
            [i \in Confirmed |-> Float(self_responses[i].val.states.actionApproveRemove.value)])

\* C1: approve_or_remove returns approve when the sum of the votes of the
\* confirmed responses is >= the approve threshold, otherwise remove when it
\* is <= the remove threshold, otherwise None; unconfirmed votes add nothing.
C1_Consensus ==
    ret.fn = "approve_or_remove" =>
        ret.val = IF ConfirmedSum >= thresholds.approve THEN "approve"
                  ELSE IF ConfirmedSum <= thresholds.remove THEN "remove"
                  ELSE "None"

\* the scenario of the claim: A confirmed +1, B unconfirmed -1, thresholds +1/-1
C1_Witness ==
    /\ ret.fn = "approve_or_remove"
    /\ thresholds = [approve |-> 1, remove |-> -1]
    /\ Len(self_responses) = 2
    /\ self_responses[1].val.actions.actionConfirm.value
    /\ self_responses[1].val.states.actionApproveRemove.value = "1"
    /\ ~self_responses[2].val.actions.actionConfirm.value
    /\ self_responses[2].val.states.actionApproveRemove.value = "-1"
    /\ ret.val = "approve"

\* C10 (as claimed): with no confirmed response and neither threshold equal
\* to 0, approve_or_remove returns None whatever the vote values are.
C10_PendingUnlessZero ==
    (/\ ret.fn = "approve_or_remove"
     /\ Confirmed = {}
     /\ thresholds.approve # 0
     /\ thresholds.remove # 0) => ret.val = "None"

\* C10 (amended): with no confirmed response, a positive approve threshold
\* and a negative remove threshold, approve_or_remove returns None whatever
\* the vote values are.
C10_PendingBetween ==
    (/\ ret.fn = "approve_or_remove"
     /\ Confirmed = {}
     /\ thresholds.approve > 0
     /\ thresholds.remove < 0) => ret.val = "None"

C10_Witness ==
    /\ ret.fn = "approve_or_remove"
    /\ Confirmed = {}
    /\ Len(self_responses) = MaxResponses
    /\ \A i \in DOMAIN self_responses :
          self_responses[i].val.states.actionApproveRemove.value = "1"
    /\ thresholds = [approve |-> 1, remove |-> -1]
    /\ ret.val = "None"

\* the responses in another iteration order
Permuted(d, p) == [i \in DOMAIN d |-> d[p[i]]]
Orders(D) == {p \in [D -> D] : \A i, j \in D : p[i] = p[j] => i = j}
NoteTs(i) == self_responses[i].val.states.actionModnote.timestamp

\* C9: modnote returns the note of the response whose note timestamp is the
\* most recent of all, and every iteration order of the same responses
\* gives the same note.
C9_ModnoteMostRecent ==
    ret.fn = "modnote" =>
        /\ \A i \in DOMAIN self_responses :
              (\A j \in DOMAIN self_responses \ {i} : StrGT(NoteTs(i), NoteTs(j)))
                  => ret.val = self_responses[i].val.states.actionModnote.value
        /\ \A p \in Orders(DOMAIN self_responses) :
              modnote(Permuted(self_responses, p)) = ret.val

\* C6: check_reddit_queue returns exactly the submissions of the modqueue
\* whose id is not a key of the store, each as a new item; a non-submission
\* is skipped and the scan goes on.
C6_DiscoverExact ==
    ret.fn = "check_reddit_queue" =>
        /\ Keys(newitems) = {i \in modqueue : i \in Submissions /\ i \notin Keys(knownitems)}
        /\ \A j \in DOMAIN newitems : newitems[j].val = ReddackSubmission(newitems[j].key)
        /\ \A j, k \in DOMAIN newitems : newitems[j].key = newitems[k].key => j = k

\* a comment is in the queue together with a new and a known submission
C6_Witness ==
    /\ ret.fn = "check_reddit_queue"
    /\ modqueue = PrawItems
    /\ Keys(knownitems) = {1}
    /\ Keys(newitems) = Submissions \ {1}

\* C7: a second run of check_reddit_queue on the same modqueue returns the
\* same set of new items as the first, and a run leaves the store unchanged,
\* in memory and in the file.
C7_DiscoverIdempotent ==
    [][ret'.fn = "check_reddit_queue" =>
          /\ knownitems' = knownitems
          /\ known_items_file' = known_items_file
          /\ (ret.fn = "check_reddit_queue" => ret'.val = ret.val)]_vars

C7_Witness ==
    /\ ret.fn = "check_reddit_queue"
    /\ ret.n = 2
    /\ ret.val # {}
    /\ knownitems # <<>>

\* C8: when get_known_items or the modqueue listing raises, sync raises, and
\* in that cycle the store file stays as the cycle found it: nothing is
\* saved, no message is posted, no item is approved or removed.
C8_AbortLeavesStore ==
    cycle.failed \in {"get_known_items", "modqueue"} =>
        /\ pc = "raised"
        /\ known_items_file = cycle.file0
        /\ cycle.saves = 0
        /\ cycle.posted = {}
        /\ cycle.acted = {}

\* the listing fails while the store holds an item and a new submission waits
C8_Witness ==
    /\ cycle.failed = "modqueue"
    /\ pc = "raised"
    /\ known_items_file # <<>>
    /\ \E i \in modqueue : i \in Submissions /\ i \notin Keys(known_items_file)

\* C2: when both attempts to send one new item fail, the cycle goes on: the
\* item is not added to the store, every other new item is sent and added,
\* the store is saved and the finalize phase is run.
C2_SendFailureConfined ==
    cycle.failed = "send_msg" =>
        /\ pc # "raised"
        /\ cycle.at \notin Keys(knownitems)
        /\ pc = "returned" =>
              /\ Keys(newitems) \ {cycle.at} \subseteq cycle.posted
              /\ cycle.saves = 2

\* C3: when chat_delete raises for one message of the thread, the deletion of
\* every other message is still attempted and no error leaves
\* complete_cleanup: the cycle is not aborted.
C3_DeleteFailureContinues ==
    cycle.failed = "chat_delete" =>
        /\ pc # "raised"
        /\ \A c \in Range(calls) : c.api = "conversations_replies" =>
              {d.arg : d \in {e \in Range(calls) : e.api = "chat_delete"}} = 1..c.arg

\* C4: over all the cycles, aborted ones included, the review message of an
\* item is posted at most once.
C4_PostedAtMostOnce == \A i \in Submissions : posts[i] <= 1

\* C5: when check_slack_queue has returned, the store holds exactly the items
\* it was given whose consensus was None; the approved and the removed items
\* are gone from it, and it holds no other item.
C5_FinalizeKeepsPending ==
    pc = "returned" =>
        LET given == Keys(cycle.file0) \cup cycle.posted
        IN /\ \A i \in given : \E d \in {"approve", "remove", "None"} :
                                   <<i, d>> \in cycle.decided
           /\ Keys(knownitems) = {i \in given : <<i, "None">> \in cycle.decided}
           /\ \A j \in DOMAIN knownitems :
                 approve_or_remove(knownitems[j].val.responses, thresholds) = "None"
           /\ known_items_file = knownitems

\* one item was resolved and another stayed pending in the same cycle
C5_Witness ==
    /\ pc = "returned"
    /\ \E i \in Submissions : <<i, "None">> \in cycle.decided
    /\ \E i \in Submissions : <<i, "approve">> \in cycle.decided \/ <<i, "remove">> \in cycle.decided

\* the reasons cited by the responses `removal_reasons` was called on
Cited == UNION {Range(self_responses[i].val.states.actionRemovalReason.value) :
                   i \in DOMAIN self_responses}

\* C11: removal_reasons returns the union of the responses' removal reasons
\* as a sorted list without duplicates: every cited reason once, no other.
C11_RemovalReasons ==
    ret.fn = "removal_reasons" =>
        /\ Range(ret.val) = Cited
        /\ \A i, j \in DOMAIN ret.val : i < j => StrGT(ret.val[j], ret.val[i])

\* two moderators cite the same reason, one of them a second reason
C11_Witness ==
    /\ ret.fn = "removal_reasons"
    /\ Len(self_responses) = 2
    /\ self_responses[1].val.states.actionRemovalReason.value = <<<<2>>, <<1, 0>>>>
    /\ self_responses[2].val.states.actionRemovalReason.value = <<<<2>>>>
    /\ ret.val = <<<<1, 0>>, <<2>>>>

\* sync is in update_slack_queue, or send_msg made it raise
Sending == pc = "update_slack_queue" \/ cycle.failed \in {"send_msg", "msg_payload"}
\* the item the last send_msg was called on
Sent == IF pc = "raised" THEN newitems[Get(newitems, cycle.at)].val
        ELSE knownitems[Len(knownitems)].val

\* C12: send_msg posts at most twice; the second post is made only when the
\* first failed and is without the thumbnail; message_ts is that of the post
\* that succeeded; when both fail MsgSendError is raised and message_ts stays
\* None.
C12_SendTwice ==
    (Sending /\ calls # <<>>) =>
        /\ Len(calls) <= 2
        /\ \A k \in DOMAIN calls : calls[k].api = "chat_postMessage"
        /\ calls[1].arg = 1
        /\ Len(calls) = 2 => (~calls[1].ok /\ calls[2].arg = 0)
        /\ calls[Len(calls)].ok =>
              /\ pc = "update_slack_queue"
              /\ Sent.message_ts = MessageTs(Sent.prawitem, posts[Sent.prawitem])
        /\ ~calls[Len(calls)].ok =>
              /\ Len(calls) = 2
              /\ pc = "raised"
              /\ cycle.failed = "send_msg"
              /\ Sent.message_ts = NoneTs

\* the first post failed and the second, without the thumbnail, succeeded
C12_Witness ==
    /\ pc = "update_slack_queue"
    /\ Len(calls) = 2
    /\ calls[2].ok
    /\ Sent.message_ts # NoneTs

\* sync is in check_slack_queue, or has left it
Finalizing == pc \in {"check_slack_queue", "returned"}
              \/ (pc = "raised" /\ cycle.decided # {})
\* the step of the finalize phase a call belongs to: the terminal action,
\* the removal notice, the archive summary, the deletion of the thread
Stage(c) == CASE c.api \in {"approve", "remove"} -> 1
              [] c.api \in {"modmail_create", "conversation_archive"} -> 2
              [] c.api \in {"users_info", "chat_postMessage"} -> 3
              [] c.api \in {"conversations_replies", "chat_delete"} -> 4

\* C13: for an item resolved in check_slack_queue the calls are made in this
\* order: approve or remove (never both), then for a removal only the
\* removal message, then the archive message, then the deletion of the
\* thread; the item leaves the store only after all of them.
C13_FinalizeOrder ==
    /\ (Finalizing /\ calls # <<>>) =>
          /\ Stage(calls[1]) = 1
          /\ \A k \in DOMAIN calls : k > 1 =>
                /\ Stage(calls[k]) > 1
                /\ Stage(calls[k - 1]) <= Stage(calls[k])
                /\ calls[k - 1].ok
          /\ calls[1].api = "approve" => \A k \in DOMAIN calls : Stage(calls[k]) # 2
          /\ (calls[1].api = "remove" /\ \E k \in DOMAIN calls : Stage(calls[k]) > 2) =>
                \E k \in DOMAIN calls : calls[k].api = "modmail_create"
          /\ (\E k \in DOMAIN calls : Stage(calls[k]) = 4) =>
                \E k \in DOMAIN calls : calls[k].api = "chat_postMessage"
                                          /\ calls[k].channel = "archive"
    /\ \A id \in cycle.acted :
          id \notin Keys(known_items_file) => (pc = "returned" /\ cycle.failed = "none")

\* an item was removed, the author told, the item archived and its thread
\* deleted, and the store saved without it
C13_Witness ==
    /\ pc = "returned"
    /\ calls # <<>>
    /\ calls[1].api = "remove"
    /\ calls[Len(calls)].api = "chat_delete"
    /\ calls[Len(calls)].ok
    /\ calls[1].arg \notin Keys(known_items_file)

\* C14: when the approve or remove call, the removal message, the archive
\* message or the deletion of the thread fails for an item, the item is
\* still in the store file when sync ends; an item acted on is out of the
\* file only when all its calls have succeeded.
C14_FailedStaysStored ==
    /\ (pc = "raised" /\ cycle.decided # {}) =>
          /\ cycle.at \in Keys(known_items_file)
          /\ calls # <<>> /\ ~calls[Len(calls)].ok
    /\ \A id \in Submissions :
          (<<id, "approve">> \in cycle.decided \/ <<id, "remove">> \in cycle.decided) =>
             (id \in Keys(known_items_file) \/ (pc = "returned" /\ id \in cycle.acted))

\* the item was approved or removed, then its archive message failed
C14_Witness ==
    /\ pc = "raised"
    /\ cycle.failed = "chat_postMessage"
    /\ cycle.at \in cycle.acted
    /\ cycle.at \in Keys(known_items_file)

\* the item check_slack_queue has just handled, when it made calls for it
Handled == knownitems[Get(knownitems, calls[1].arg)].val
\* the stored requests made on that item's message
Replies == {r \in post_requests : r.ts = Handled.message_ts}
\* the newest request of moderator u among the requests R
Newest(R, u) == CHOOSE r \in R :
                   /\ r.user = u
                   /\ \A q \in R : (q.user = u /\ q # r) => StrGT(r.timestamp, q.timestamp)
\* the sum of the confirmed votes, newest[u] being moderator u's newest request
RepliesSum(newest) ==
    LET confirmed == {u \in DOMAIN newest : newest[u].actionConfirm}
    IN SumOver(confirmed, [u \in confirmed |-> Float(newest[u].actionApproveRemove)])

\* C15: when check_slack_queue approves or removes an item, every stored
\* request on the item's message has been merged into its responses (each
\* moderator's response holds that moderator's newest request), and the call
\* is the consensus over these responses: approve only for approve, remove
\* only for remove.
C15_ActionAfterMerge ==
    (pc \in {"check_slack_queue", "raised"} /\ cycle.decided # {} /\ calls # <<>>) =>
        \A item \in {Handled} : \A R \in {Replies} :
        \A newest \in {[u \in {r.user : r \in R} |-> Newest(R, u)]} :
        \A votes \in {RepliesSum(newest)} :
            /\ Keys(item.responses) = DOMAIN newest
            /\ \A j \in DOMAIN item.responses :
                  LET u == item.responses[j].key
                      response == item.responses[j].val
                  IN /\ response.actions.actionConfirm.value = newest[u].actionConfirm
                     /\ response.states.actionApproveRemove.value = newest[u].actionApproveRemove
                     /\ response.actions.actionConfirm.timestamp = newest[u].timestamp
            /\ calls[1].api = "approve" => votes >= thresholds.approve
            /\ calls[1].api = "remove" =>
                  (votes < thresholds.approve /\ votes <= thresholds.remove)

\* two requests were stored on the message, an unconfirmed one and, newest,
\* a confirmed -1, and the item was removed
C15_Witness ==
    /\ pc = "check_slack_queue"
    /\ calls # <<>>
    /\ calls[1].api = "remove"
    /\ Cardinality(Replies) = 2
    /\ \E r \in Replies : ~r.actionConfirm
    /\ \E r \in Replies : r.actionConfirm /\ r.actionApproveRemove = "-1"
                            /\ \A q \in Replies \ {r} : StrGT(r.timestamp, q.timestamp)

\* the item has the timestamp of one of its review messages
HasHandle(d, j) ==
    /\ d[j].val.message_ts # NoneTs
    /\ \E k \in 1..posts[d[j].key] : d[j].val.message_ts = MessageTs(d[j].key, k)

\* C16: every item of the store, in knownitems from update_slack_queue on
\* and in the store file at all times, has a message_ts that is not None.
C16_StoredHaveHandle ==
    /\ \A j \in DOMAIN known_items_file : HasHandle(known_items_file, j)
    /\ \A j \in DOMAIN knownitems : HasHandle(knownitems, j)
    /\ \A j \in DOMAIN incomplete : HasHandle(incomplete, j)

\* the items posted in this cycle are in the store, in memory and in the file
C16_Witness ==
    /\ pc = "check_slack_queue"
    /\ cycle.posted # {}
    /\ cycle.posted \subseteq Keys(known_items_file)
    /\ Len(known_items_file) = 2
    /\ known_items_file = knownitems

\* C17: over all the cycles, aborted ones included, an item is approved or
\* removed at most once.
C17_ActedAtMostOnce == \A i \in Submissions : terminal[i] <= 1

\* the sum of the confirmed votes over the stored requests on an item's message
VotesOn(item) ==
    LET R == {r \in post_requests : r.ts = item.message_ts}
    IN RepliesSum([u \in {r.user : r \in R} |-> Newest(R, u)])

\* C18: when the sum of the confirmed votes is >= the approve threshold and
\* <= the remove threshold at once, approve_or_remove returns approve, and
\* check_slack_queue approves the item and does not remove it.
C18_ApproveFirst ==
    pc \in {"check_slack_queue", "raised"} =>
        \A j \in DOMAIN knownitems :
        \A id \in {knownitems[j].key} :
        \A ds \in {{d \in {"approve", "remove", "None"} : <<id, d>> \in cycle.decided}} :
            ds # {} =>
                \A votes \in {VotesOn(knownitems[j].val)} :
                    (votes >= thresholds.approve /\ votes <= thresholds.remove) =>
                        /\ ds = {"approve"}
                        /\ approve_or_remove(knownitems[j].val.responses, thresholds)
                              = "approve"
                        /\ (calls # <<>> /\ calls[1].arg = id) =>
                              /\ calls[1].api = "approve"
                              /\ \A k \in DOMAIN calls :
                                    calls[k].api \notin {"remove", "modmail_create"}

\* with both thresholds 0, a confirmed +1 and a confirmed -1 of two
\* moderators sum to 0, which meets both, and the item is approved
C18_Witness ==
    /\ pc = "check_slack_queue"
    /\ thresholds = [approve |-> 0, remove |-> 0]
    /\ calls # <<>>
    /\ calls[1].api = "approve"
    /\ calls[1].ok
    /\ Cardinality({r.user : r \in Replies}) = 2
    /\ \A r \in Replies : r.actionConfirm
    /\ VotesOn(Handled) = 0

====
